---- MODULE Spec2Model ----
(***************************************************************************)
(* A state-machine model of the table widget of lv_objx/lv_table.c.        *)
(*                                                                         *)
(* One table object is followed through its life: creation, the public     *)
(* setters, copy-construction (the model then follows the copy) and the    *)
(* cleanup signal.  Getters are pure and are operators over the state.     *)
(*                                                                         *)
(* Memory is modelled as the C code uses it:                               *)
(*  - ext->cell_data is a pointer to an array of char* slots; the NULL     *)
(*    pointer is the empty sequence, an allocated array of n slots is a    *)
(*    sequence of length n;                                                *)
(*  - a slot is NULL, an owned buffer (format byte, text bytes, NUL), or   *)
(*    WILD: a non-NULL value that was never written by the table (the      *)
(*    allocator does not clear memory, so a slot of a freshly allocated    *)
(*    or grown array holds whatever was there: zero bytes or junk);        *)
(*  - an invalid memory access (indexing the NULL array, dereferencing,    *)
(*    freeing or reallocating a WILD pointer) is undefined behaviour: the  *)
(*    model records it in `fault` and follows the program no further;      *)
(*    the other variables keep what the call had written by then.          *)
(***************************************************************************)
EXTENDS Integers, Sequences, FiniteSets, TLC

(***************************************************************************)
(* Bounds of the model and program constants.                              *)
(***************************************************************************)
\* largest row count passed to lv_table_set_row_cnt
MaxRow == 2
\* capacity of the heap for cell buffers: a setter allocates a cell buffer only
\* while fewer than this many are allocated (live or leaked)
MaxBufs == 1
\* largest number of cell buffers in a table a specification starts from
MaxDrawnBufs == 2
\* capacity of the heap for the slot array: a resize to more slots than this is
\* not followed
MaxCells == 4
\* lv_conf.h settings of the modelled build
LV_TABLE_COL_MAX == 4
LV_DPI == 3
\* lv_label_align_t
LV_LABEL_ALIGN_LEFT == 0
LV_LABEL_ALIGN_CENTER == 1
LV_LABEL_ALIGN_RIGHT == 2

\* the texts callers pass: NUL-terminated strings are sequences of non-zero bytes
Texts == {<<>>, <<65, 66, 67>>}
Aligns == {LV_LABEL_ALIGN_LEFT, LV_LABEL_ALIGN_CENTER, LV_LABEL_ALIGN_RIGHT}
\* what an uninitialized format byte can hold (the bits the union reads)
FormatBytes == 0..7
\* argument ranges
RowCntArgs == 0..MaxRow
ColCntArgs == 0..(LV_TABLE_COL_MAX + 1)

\* the two styles the widget references at creation (padding and font height are
\* what the layout reads of a style)
lv_style_plain == [name |-> "plain", pad_hor |-> 1, pad_ver |-> 1, font_h |-> 2]
lv_style_plain_color == [name |-> "plain_color", pad_hor |-> 1, pad_ver |-> 1, font_h |-> 2]

\* another style a caller can install with lv_table_set_style
lv_style_pretty == [name |-> "pretty", pad_hor |-> 2, pad_ver |-> 2, font_h |-> 3]
Styles == {lv_style_plain, lv_style_pretty}
\* lv_table_style_t
StyleTypes == {"LV_TABLE_STYLE_BG", "LV_TABLE_STYLE_CELL"}
\* the widths and column ids passed to lv_table_set_col_width
Widths == {1, LV_DPI}
ColIdArgs == {0, LV_TABLE_COL_MAX - 1, LV_TABLE_COL_MAX}

VARIABLES
    row_cnt,      \* ext->row_cnt
    col_cnt,      \* ext->col_cnt
    col_w,        \* ext->col_w[LV_TABLE_COL_MAX]
    cell_data,    \* ext->cell_data: <<>> is NULL, else the array of slots
    cell_style,   \* ext->cell_style
    bg_style,     \* the object's own style (lv_obj_get_style)
    obj_w,        \* width of the object (lv_obj_set_size)
    obj_h,        \* height of the object
    inv,          \* the last call requested a redraw (lv_obj_invalidate)
    heap_cells,   \* number of cell buffers allocated by the table and not freed
    alive,        \* FALSE once the cleanup signal has run (the object is deleted)
    fault,        \* an invalid memory access happened
    warn,         \* the warning the last call logged (LV_LOG_WARN), or "none"
    drawn         \* the draw calls the last call issued (lv_draw_rect, lv_draw_label)

vars == <<row_cnt, col_cnt, col_w, cell_data, cell_style, bg_style, obj_w, obj_h,
          inv, heap_cells, alive, fault, warn, drawn>>
\* the table state of spec section 3 with the widget size
table == <<row_cnt, col_cnt, col_w, cell_data, cell_style, bg_style, obj_w, obj_h>>

(***************************************************************************)
(* Pointers and buffers.                                                   *)
(***************************************************************************)
NULL == [kind |-> "null", bytes |-> <<>>]
WILD == [kind |-> "wild", bytes |-> <<>>]
Buf(bytes) == [kind |-> "buf", bytes |-> bytes]
IsBuf(p) == p.kind = "buf"

Max(a, b) == IF a > b THEN a ELSE b
Min(a, b) == IF a < b THEN a ELSE b

\* a result of a call that may fault
Ok(v) == [fault |-> FALSE, val |-> v]
Fault == [fault |-> TRUE, val |-> 0]

\* lv_table_cell_format_t: align is the two low bits, right_merge the next one
FormatAlign(b) == b % 4
FormatRightMerge(b) == (b \div 4) % 2
WithAlign_WholeByte(b, align) == align % 4
WithAlign(b, align) == (b - (b % 4)) + (align % 4)
WithRightMerge(b, m) == (b - 4 * ((b \div 4) % 2)) + 4 * (m % 2)

\* the C string that starts at byte i (1-based) of a buffer; reading past the
\* buffer's end is a fault
RECURSIVE CStr(_, _)
CStr(bytes, i) ==
    IF i > Len(bytes) THEN Fault
    ELSE IF bytes[i] = 0 THEN Ok(<<>>)
    ELSE LET r == CStr(bytes, i + 1)
         IN  IF r.fault THEN Fault ELSE Ok(<<bytes[i]>> \o r.val)

\* slot `cell` (0-based) of the array: indexing NULL or past the end faults
Slot(cd, cell) == IF cell + 1 > Len(cd) THEN Fault ELSE Ok(cd[cell + 1])

\* lv_mem_realloc of the slot array to n slots: the first min(old, n) slots are
\* copied, the others are not initialized (each holds zero or junk)
ReallocSlots(cd, n) ==
    { [i \in 1..n |-> IF i <= Len(cd) THEN cd[i] ELSE fill[i]] :
        fill \in [(Min(Len(cd), n) + 1)..n -> {NULL, WILD}] }

\* the number of owned buffers among the slots
RECURSIVE CountBufs(_)
CountBufs(cd) ==
    IF cd = <<>> THEN 0
    ELSE (IF IsBuf(Head(cd)) THEN 1 ELSE 0) + CountBufs(Tail(cd))

(***************************************************************************)
(* Layout: get_row_height and refr_size.                                   *)
(***************************************************************************)
\* lv_txt_get_size: the height of `txt` wrapped into `max_w` with a font whose
\* letters are 1 wide and `font_h` high (line and letter space 0); an empty text
\* is one line high
TxtLines(len, max_w) ==
    IF len = 0 THEN 1
    ELSE IF max_w < 1 THEN len
    ELSE (len + max_w - 1) \div max_w
lv_txt_get_size(txt, font_h, max_w) == TxtLines(Len(txt), max_w) * font_h

\* the merge loop of get_row_height: from slot `cell` in column `col`, follow
\* the right_merge flags; col_merge counts the absorbed columns, w adds their
\* widths
MergeSpan_OneColumn(cd, cc, cw, cell, col, col_merge, w) ==
    IF ~(col < cc - 1) THEN Ok([col_merge |-> 0, w |-> w])
    ELSE LET s == Slot(cd, cell)
         IN  IF s.fault \/ s.val = WILD THEN Fault
             ELSE IF s.val # NULL /\ FormatRightMerge(s.val.bytes[1]) = 1
                  THEN Ok([col_merge |-> 1, w |-> w + cw[col + 1]])
                  ELSE Ok([col_merge |-> 0, w |-> w])
RECURSIVE MergeSpan(_, _, _, _, _, _, _)
MergeSpan(cd, cc, cw, cell, col, col_merge, w) ==
    IF ~(col_merge + col < cc - 1) THEN Ok([col_merge |-> col_merge, w |-> w])
    ELSE LET s == Slot(cd, cell + col_merge)
         IN  IF s.fault THEN Fault
             ELSE IF s.val = NULL THEN Ok([col_merge |-> col_merge, w |-> w])
             ELSE IF s.val = WILD THEN Fault
             ELSE IF FormatRightMerge(s.val.bytes[1]) = 1
                  THEN MergeSpan(cd, cc, cw, cell, col, col_merge + 1,
                                 w + cw[col + col_merge + 1])
                  ELSE Ok([col_merge |-> col_merge, w |-> w])

\* the column loop of get_row_height; `calls` collects the lv_txt_get_size calls
\* it makes: the column of the measured cell, the columns it absorbs, the text
\* and the width the text is wrapped into
RECURSIVE RowScan(_, _, _, _, _, _, _, _, _)
RowScan(cd, cc, cw, cs, row_start, cell, col, h_max, calls) ==
    IF ~(cell < row_start + cc) THEN Ok([h_max |-> h_max, calls |-> calls])
    ELSE LET s == Slot(cd, cell)
         IN  IF s.fault THEN Fault
             ELSE IF s.val = NULL
                  THEN RowScan(cd, cc, cw, cs, row_start, cell + 1, col + 1, h_max, calls)
             ELSE IF s.val = WILD THEN Fault
             ELSE LET m == MergeSpan(cd, cc, cw, cell, col, 0, cw[col])
                      t == CStr(s.val.bytes, 2)
                  IN  IF m.fault \/ t.fault THEN Fault
                      ELSE LET txt_w == m.val.w - 2 * cs.pad_hor
                               h == lv_txt_get_size(t.val, cs.font_h, txt_w)
                               call == [col |-> col, col_merge |-> m.val.col_merge,
                                        txt |-> t.val, max_w |-> txt_w]
                           IN  RowScan(cd, cc, cw, cs, row_start,
                                       cell + m.val.col_merge + 1,
                                       col + m.val.col_merge + 1,
                                       Max(h, h_max), Append(calls, call))

get_row_height_NoFontFloor(cd, cc, cw, cs, row_id) ==
    LET r == RowScan(cd, cc, cw, cs, row_id * cc, row_id * cc, 0, 0, <<>>)
    IN  IF r.fault THEN Fault ELSE Ok(r.val.h_max + 2 * cs.pad_ver)
get_row_height(cd, cc, cw, cs, row_id) ==
    LET r == RowScan(cd, cc, cw, cs, row_id * cc, row_id * cc, 0, cs.font_h, <<>>)
    IN  IF r.fault THEN Fault ELSE Ok(r.val.h_max + 2 * cs.pad_ver)

\* the lv_txt_get_size calls get_row_height makes for a row
MeasureCalls(cd, cc, cw, cs, row_id) ==
    LET r == RowScan(cd, cc, cw, cs, row_id * cc, row_id * cc, 0, cs.font_h, <<>>)
    IN  IF r.fault THEN Fault ELSE Ok(r.val.calls)

RECURSIVE SumColW(_, _)
SumColW(cw, n) == IF n = 0 THEN 0 ELSE cw[n - 1] + SumColW(cw, n - 1)

RECURSIVE SumRowH(_, _, _, _, _)
SumRowH(cd, cc, cw, cs, n) ==
    IF n = 0 THEN Ok(0)
    ELSE LET rest == SumRowH(cd, cc, cw, cs, n - 1)
             h == get_row_height(cd, cc, cw, cs, n - 1)
         IN  IF rest.fault \/ h.fault THEN Fault ELSE Ok(rest.val + h.val)

\* refr_size: the size it hands to lv_obj_set_size, or a fault
refr_size(rc, cc, cw, cd, cs, bs) ==
    LET h == SumRowH(cd, cc, cw, cs, rc)
    IN  IF h.fault THEN Fault
        ELSE Ok([w |-> SumColW(cw, cc) + bs.pad_hor * 2, h |-> h.val + bs.pad_ver * 2])

\* the tail shared by the setters that end in refr_size(table): the new size and
\* the redraw request, or the fault of the measurement
Refresh(rc, cc, cw, cd, cs, bs) ==
    LET r == refr_size(rc, cc, cw, cd, cs, bs)
    IN  IF r.fault
        THEN /\ fault' = TRUE
             /\ UNCHANGED <<obj_w, obj_h, inv>>
        ELSE /\ fault' = FALSE
             /\ obj_w' = r.val.w
             /\ obj_h' = r.val.h
             /\ inv' = TRUE

(***************************************************************************)
(* Rendering: lv_table_design in mode LV_DESIGN_DRAW_MAIN.                 *)
(***************************************************************************)
\* table->coords: the object stays where it was created
coords_x1 == 0
coords_y1 == 0

\* lv_area_get_width of an area from x1 to x2
lv_area_get_width(x1, x2) == x2 - x1

\* the switch on format.align: the text flags the label is drawn with; an
\* alignment that is none of the three cases leaves txt_flags unset, and the
\* call is made with whatever it holds
TxtFlags(align) ==
    IF align = LV_LABEL_ALIGN_LEFT THEN {"none"}
    ELSE IF align = LV_LABEL_ALIGN_RIGHT THEN {"right"}
    ELSE IF align = LV_LABEL_ALIGN_CENTER THEN {"center"}
    ELSE {"none", "right", "center"}

\* the two draw calls; `col_merge` is the number of columns the cell absorbs,
\* `max_w` the width handed to lv_txt_get_size for the label
lv_draw_rect(row, col, col_merge, x1, x2, y1, y2) ==
    [kind |-> "rect", row |-> row, col |-> col, col_merge |-> col_merge,
     x1 |-> x1, x2 |-> x2, y1 |-> y1, y2 |-> y2,
     txt |-> <<>>, flags |-> {}, max_w |-> 0]
lv_draw_label(row, col, col_merge, x1, x2, y1, y2, txt, flags) ==
    [kind |-> "label", row |-> row, col |-> col, col_merge |-> col_merge,
     x1 |-> x1, x2 |-> x2, y1 |-> y1, y2 |-> y2,
     txt |-> txt, flags |-> flags, max_w |-> lv_area_get_width(x1, x2)]

\* the merge loop of lv_table_design: from slot `cell` in column `col`, follow
\* the right_merge flags; x2 moves right by the width of every absorbed column
DesignMergeSpan_NoMerge(cd, cc, cw, cell, col, col_merge, x2) ==
    Ok([col_merge |-> 0, x2 |-> x2])
DesignMergeSpan_KeepWidth(cd, cc, cw, cell, col, col_merge, x2) ==
    LET m == MergeSpan(cd, cc, cw, cell, col, 0, 0)
    IN  IF m.fault THEN Fault ELSE Ok([col_merge |-> m.val.col_merge, x2 |-> x2])
RECURSIVE DesignMergeSpan(_, _, _, _, _, _, _)
DesignMergeSpan(cd, cc, cw, cell, col, col_merge, x2) ==
    IF ~(col_merge + col < cc - 1) THEN Ok([col_merge |-> col_merge, x2 |-> x2])
    ELSE LET s == Slot(cd, cell + col_merge)
         IN  IF s.fault THEN Fault
             ELSE IF s.val = NULL THEN Ok([col_merge |-> col_merge, x2 |-> x2])
             ELSE IF s.val = WILD THEN Fault
             ELSE IF FormatRightMerge(s.val.bytes[1]) = 1
                  THEN DesignMergeSpan(cd, cc, cw, cell, col, col_merge + 1,
                                       x2 + cw[col + col_merge + 1])
                  ELSE Ok([col_merge |-> col_merge, x2 |-> x2])

\* the column loop of lv_table_design for one row: the slot index after the row
\* and the draw calls so far
RECURSIVE DesignCols(_, _, _, _, _, _, _, _, _, _, _)
DesignCols(cd, cc, cw, cs, row, cell, col, x2, y1, y2, calls) ==
    IF ~(col < cc) THEN Ok([cell |-> cell, calls |-> calls])
    ELSE LET x1 == x2
             m == DesignMergeSpan(cd, cc, cw, cell, col, 0, x1 + cw[col])
             s == Slot(cd, cell)
         IN  IF m.fault \/ s.fault \/ s.val = WILD THEN Fault
             ELSE LET rect == lv_draw_rect(row, col, m.val.col_merge, x1, m.val.x2, y1, y2)
                      t == IF s.val = NULL THEN Ok(<<>>) ELSE CStr(s.val.bytes, 2)
                  IN  IF t.fault THEN Fault
                      ELSE LET label ==
                                 lv_draw_label(row, col, m.val.col_merge,
                                     x1 + cs.pad_hor, m.val.x2 - cs.pad_hor,
                                     y1 + cs.pad_ver, y2 - cs.pad_ver,
                                     t.val, TxtFlags(FormatAlign(s.val.bytes[1])))
                               out == IF s.val = NULL THEN <<rect>> ELSE <<rect, label>>
                           IN  DesignCols(cd, cc, cw, cs, row,
                                          cell + m.val.col_merge + 1,
                                          col + m.val.col_merge + 1,
                                          m.val.x2, y1, y2, calls \o out)

\* the row loop of lv_table_design
RECURSIVE DesignRows(_, _, _, _, _, _, _, _, _, _)
DesignRows(rc, cc, cw, cd, cs, bs, row, cell, y2, calls) ==
    IF ~(row < rc) THEN Ok(calls)
    ELSE LET h_row == get_row_height(cd, cc, cw, cs, row)
         IN  IF h_row.fault THEN Fault
             ELSE LET r == DesignCols(cd, cc, cw, cs, row, cell, 0,
                                      coords_x1 + bs.pad_hor, y2, y2 + h_row.val, calls)
                  IN  IF r.fault THEN Fault
                      ELSE DesignRows(rc, cc, cw, cd, cs, bs, row + 1, r.val.cell,
                                      y2 + h_row.val, r.val.calls)

\* the draw calls of one main draw, or a fault
lv_table_design(rc, cc, cw, cd, cs, bs) ==
    DesignRows(rc, cc, cw, cd, cs, bs, 0, 0, coords_y1 + bs.pad_ver, <<>>)

Running == alive /\ ~fault

\* the (row, col) arguments of the per-cell calls: every cell of the grid, one
\* row past the last row and one column past the last column
CellArgs ==
    ((0..(row_cnt - 1)) \X (0..(col_cnt - 1))) \cup {<<row_cnt, 0>>, <<0, col_cnt>>}

\* the slot of cell (row, col): uint32_t cell = row * ext->col_cnt + col
CellIndex_NoCol(row, col) == row * col_cnt
CellIndex(row, col) == row * col_cnt + col

\* the range check every per-cell accessor starts with
OutOfRange_OffByOne(row, col) == row > row_cnt \/ col > col_cnt
OutOfRange(row, col) == row >= row_cnt \/ col >= col_cnt

(***************************************************************************)
(* Creation.                                                               *)
(***************************************************************************)
\* lv_table_create(par, NULL)
Init ==
    /\ row_cnt = 0
    /\ col_cnt = 0
    /\ col_w = [i \in 0..(LV_TABLE_COL_MAX - 1) |-> LV_DPI]
    /\ cell_data = <<>>
    /\ cell_style = lv_style_plain
    /\ bg_style = lv_style_plain_color
    /\ obj_w = lv_style_plain_color.pad_hor * 2
    /\ obj_h = lv_style_plain_color.pad_ver * 2
    /\ inv = TRUE
    /\ heap_cells = 0
    /\ alive = TRUE
    /\ fault = FALSE
    /\ warn = "none"
    /\ drawn = <<>>

(***************************************************************************)
(* Dimension setters.                                                      *)
(***************************************************************************)
\* the store after a count change: reallocated to rc * cc slots, or freed
Resized(cd, rc, cc) ==
    IF rc > 0 /\ cc > 0 THEN ReallocSlots(cd, rc * cc) ELSE {<<>>}

lv_table_set_row_cnt(n) ==
    /\ Running
    /\ n * col_cnt <= MaxCells
    /\ warn' = "none"
    /\ drawn' = <<>>
    /\ row_cnt' = n
    /\ UNCHANGED <<col_cnt, col_w, cell_style, bg_style, heap_cells, alive>>
    /\ \E cd \in Resized(cell_data, n, col_cnt) :
         /\ cell_data' = cd
         /\ Refresh(n, col_cnt, col_w, cd, cell_style, bg_style)

\* the check lv_table_set_col_cnt starts with
TooManyCols_OffByOne(n) == n > LV_TABLE_COL_MAX
TooManyCols(n) == n >= LV_TABLE_COL_MAX

lv_table_set_col_cnt(n) ==
    /\ Running
    /\ IF TooManyCols(n)
       THEN /\ warn' = "too many columns"
            /\ drawn' = <<>>
            /\ inv' = FALSE
            /\ UNCHANGED <<table, heap_cells, alive, fault>>
       ELSE /\ row_cnt * n <= MaxCells
            /\ warn' = "none"
            /\ drawn' = <<>>
            /\ col_cnt' = n
            /\ UNCHANGED <<row_cnt, col_w, cell_style, bg_style, heap_cells, alive>>
            /\ \E cd \in Resized(cell_data, row_cnt, n) :
                 /\ cell_data' = cd
                 /\ Refresh(row_cnt, n, col_w, cd, cell_style, bg_style)

(***************************************************************************)
(* Column widths and styles.                                               *)
(***************************************************************************)
\* the check lv_table_set_col_width and lv_table_get_col_width start with
ColIdTooBig_OffByOne(col_id) == col_id > LV_TABLE_COL_MAX
ColIdTooBig(col_id) == col_id >= LV_TABLE_COL_MAX

lv_table_set_col_width(col_id, w) ==
    /\ Running
    /\ IF ColIdTooBig(col_id)
       THEN /\ warn' = "too big col_id"
            /\ drawn' = <<>>
            /\ inv' = FALSE
            /\ UNCHANGED <<table, heap_cells, alive, fault>>
       ELSE IF col_id \notin DOMAIN col_w
       THEN \* a write past the end of ext->col_w
            /\ warn' = "none"
            /\ drawn' = <<>>
            /\ fault' = TRUE
            /\ UNCHANGED <<table, inv, heap_cells, alive>>
       ELSE /\ warn' = "none"
            /\ drawn' = <<>>
            /\ UNCHANGED <<row_cnt, col_cnt, cell_data, cell_style, bg_style,
                           heap_cells, alive>>
            /\ LET cw == [col_w EXCEPT ![col_id] = w]
               IN  /\ col_w' = cw
                   /\ Refresh(row_cnt, col_cnt, cw, cell_data, cell_style, bg_style)

lv_table_set_style(type, style) ==
    /\ Running
    /\ warn' = "none"
    /\ drawn' = <<>>
    /\ UNCHANGED <<row_cnt, col_cnt, col_w, cell_data, heap_cells, alive>>
    /\ IF type = "LV_TABLE_STYLE_BG"
       THEN /\ bg_style' = style
            /\ UNCHANGED cell_style
            /\ Refresh(row_cnt, col_cnt, col_w, cell_data, cell_style, style)
       ELSE /\ cell_style' = style
            /\ inv' = TRUE
            /\ UNCHANGED <<bg_style, obj_w, obj_h, fault>>

(***************************************************************************)
(* Cell setters.                                                           *)
(***************************************************************************)
\* the format a slot that holds nothing starts from in lv_table_set_cell_value
InitFormat == WithRightMerge(WithAlign(0, LV_LABEL_ALIGN_LEFT), 0)

\* lv_mem_realloc(slot, size), strcpy(slot + 1, txt), slot[0] = format
StoreText(format, txt, size) ==
    [i \in 1..size |-> IF i = 1 THEN format
                       ELSE IF i - 1 <= Len(txt) THEN txt[i - 1] ELSE 0]

\* a call that the range check turns away: nothing is written
Rejected(msg) ==
    /\ warn' = msg
    /\ drawn' = <<>>
    /\ inv' = FALSE
    /\ UNCHANGED <<table, heap_cells, alive, fault>>

\* a call that runs into an invalid memory access before it writes anything
Crash ==
    /\ warn' = "none"
    /\ drawn' = <<>>
    /\ fault' = TRUE
    /\ UNCHANGED <<table, inv, heap_cells, alive>>

lv_table_set_cell_value(row, col, txt) ==
    /\ Running
    /\ IF OutOfRange(row, col)
       THEN Rejected("invalid row or column")
       ELSE LET cell == CellIndex(row, col)
                s == Slot(cell_data, cell)
            IN  IF s.fault \/ s.val = WILD
                THEN Crash
                ELSE /\ (s.val = NULL => heap_cells < MaxBufs)
                     /\ warn' = "none"
                     /\ drawn' = <<>>
                     /\ heap_cells' = IF s.val = NULL THEN heap_cells + 1 ELSE heap_cells
                     /\ UNCHANGED <<row_cnt, col_cnt, col_w, cell_style, bg_style, alive>>
                     /\ LET format == IF IsBuf(s.val) THEN s.val.bytes[1] ELSE InitFormat
                            cd == [cell_data EXCEPT
                                     ![cell + 1] = Buf(StoreText(format, txt, Len(txt) + 2))]
                        IN  /\ cell_data' = cd
                            /\ Refresh(row_cnt, col_cnt, col_w, cd, cell_style, bg_style)

\* lv_mem_alloc(2) with byte 1 set to NUL: byte 0 is not initialized
AllocEmpty == { <<b, 0>> : b \in FormatBytes }
\* the buffer the format setters work on: the slot's own, or a fresh one
CellBuf(p) == IF p = NULL THEN AllocEmpty ELSE {p.bytes}

lv_table_set_cell_align(row, col, align) ==
    /\ Running
    /\ IF OutOfRange(row, col)
       THEN Rejected("invalid row or column")
       ELSE LET cell == CellIndex(row, col)
                s == Slot(cell_data, cell)
            IN  IF s.fault \/ s.val = WILD
                THEN Crash
                ELSE /\ (s.val = NULL => heap_cells < MaxBufs)
                     /\ warn' = "none"
                     /\ drawn' = <<>>
                     /\ inv' = FALSE
                     /\ heap_cells' = IF s.val = NULL THEN heap_cells + 1 ELSE heap_cells
                     /\ UNCHANGED <<row_cnt, col_cnt, col_w, cell_style, bg_style,
                                    obj_w, obj_h, alive, fault>>
                     /\ \E new \in { [old EXCEPT ![1] = WithAlign(old[1], align)] :
                                      old \in CellBuf(s.val) } :
                          cell_data' = [cell_data EXCEPT ![cell + 1] = Buf(new)]

lv_table_set_cell_merge_right(row, col, en) ==
    /\ Running
    /\ IF OutOfRange(row, col)
       THEN Rejected("invalid row or column")
       ELSE LET cell == CellIndex(row, col)
                s == Slot(cell_data, cell)
            IN  IF s.fault \/ s.val = WILD
                THEN Crash
                ELSE /\ (s.val = NULL => heap_cells < MaxBufs)
                     /\ warn' = "none"
                     /\ drawn' = <<>>
                     /\ heap_cells' = IF s.val = NULL THEN heap_cells + 1 ELSE heap_cells
                     /\ UNCHANGED <<row_cnt, col_cnt, col_w, cell_style, bg_style, alive>>
                     /\ \E new \in { [old EXCEPT ![1] =
                                         WithRightMerge(old[1], IF en THEN 1 ELSE 0)] :
                                      old \in CellBuf(s.val) } :
                          LET cd == [cell_data EXCEPT ![cell + 1] = Buf(new)]
                          IN  /\ cell_data' = cd
                              /\ Refresh(row_cnt, col_cnt, col_w, cd, cell_style, bg_style)

(***************************************************************************)
(* Copy construction and destruction.                                      *)
(***************************************************************************)
\* lv_table_create(par, copy) with the current table as `copy`; the model goes on
\* with the new table, which has allocated nothing yet
lv_table_create_copy ==
    /\ Running
    /\ warn' = "none"
    /\ drawn' = <<>>
    /\ cell_data' = <<>>
    /\ col_w' = [i \in 0..(LV_TABLE_COL_MAX - 1) |-> LV_DPI]
    /\ heap_cells' = 0
    /\ inv' = TRUE
    /\ UNCHANGED <<row_cnt, col_cnt, cell_style, bg_style, obj_w, obj_h, alive, fault>>

\* lv_table_signal(table, LV_SIGNAL_CLEANUP, ...): frees the buffer of every
\* slot below col_cnt * row_cnt, then the object is deleted
CleanupFaults(cd, n) ==
    \E cell \in 0..(n - 1) : Slot(cd, cell).fault \/ Slot(cd, cell).val = WILD

lv_table_signal_cleanup ==
    /\ Running
    /\ IF CleanupFaults(cell_data, col_cnt * row_cnt)
       THEN Crash
       ELSE /\ warn' = "none"
            /\ drawn' = <<>>
            /\ cell_data' = [i \in 1..Len(cell_data) |->
                               IF i <= col_cnt * row_cnt THEN NULL ELSE cell_data[i]]
            /\ heap_cells' = heap_cells - CountBufs(SubSeq(cell_data, 1, col_cnt * row_cnt))
            /\ alive' = FALSE
            /\ inv' = FALSE
            /\ UNCHANGED <<row_cnt, col_cnt, col_w, cell_style, bg_style, obj_w, obj_h, fault>>

(***************************************************************************)
(* Getters.                                                                *)
(***************************************************************************)
lv_table_get_row_cnt == row_cnt
lv_table_get_col_cnt == col_cnt

lv_table_get_cell_value(row, col) ==
    IF OutOfRange(row, col) THEN Ok(<<>>)
    ELSE LET s == Slot(cell_data, CellIndex(row, col))
         IN  IF s.fault THEN Fault
             ELSE IF s.val = NULL THEN Ok(<<>>)
             ELSE IF s.val = WILD THEN Fault
             ELSE CStr(s.val.bytes, 2)

lv_table_get_cell_align(row, col) ==
    IF OutOfRange(row, col) THEN Ok(LV_LABEL_ALIGN_LEFT)
    ELSE LET s == Slot(cell_data, CellIndex(row, col))
         IN  IF s.fault THEN Fault
             ELSE IF s.val = NULL THEN Ok(LV_LABEL_ALIGN_LEFT)
             ELSE IF s.val = WILD THEN Fault
             ELSE Ok(FormatAlign(s.val.bytes[1]))

lv_table_get_cell_merge_right(row, col) ==
    IF OutOfRange(row, col) THEN Ok(FALSE)
    ELSE LET s == Slot(cell_data, CellIndex(row, col))
         IN  IF s.fault THEN Fault
             ELSE IF s.val = NULL THEN Ok(FALSE)
             ELSE IF s.val = WILD THEN Fault
             ELSE Ok(FormatRightMerge(s.val.bytes[1]) = 1)

lv_table_get_col_width(col_id) ==
    IF ColIdTooBig(col_id) THEN Ok(0)
    ELSE IF col_id \notin DOMAIN col_w THEN Fault
    ELSE Ok(col_w[col_id])

(***************************************************************************)
(* Main draw.                                                              *)
(***************************************************************************)
\* lv_table_design(table, mask, LV_DESIGN_DRAW_MAIN)
lv_table_design_main ==
    /\ Running
    /\ LET d == lv_table_design(row_cnt, col_cnt, col_w, cell_data, cell_style, bg_style)
       IN  IF d.fault
           THEN Crash
           ELSE /\ warn' = "none"
                /\ drawn' = d.val
                /\ inv' = FALSE
                /\ UNCHANGED <<table, heap_cells, alive, fault>>

(***************************************************************************)
(* The specification.                                                      *)
(***************************************************************************)
Next ==
    \/ \E n \in RowCntArgs : lv_table_set_row_cnt(n)
    \/ \E n \in ColCntArgs : lv_table_set_col_cnt(n)
    \/ \E rc \in CellArgs, txt \in Texts :
         lv_table_set_cell_value(rc[1], rc[2], txt)
    \/ \E rc \in CellArgs, align \in Aligns :
         lv_table_set_cell_align(rc[1], rc[2], align)
    \/ \E rc \in CellArgs, en \in BOOLEAN :
         lv_table_set_cell_merge_right(rc[1], rc[2], en)
    \/ lv_table_create_copy
    \/ lv_table_design_main
    \/ lv_table_signal_cleanup

Spec == Init /\ [][Next]_vars

\* the table under the calls that change its size: dimensions, column widths,
\* cell contents and styles; one row is enough for every size to change
SizeRowCntArgs == {0, 1}
SizeNext ==
    \/ \E n \in SizeRowCntArgs : lv_table_set_row_cnt(n)
    \/ \E n \in ColCntArgs : lv_table_set_col_cnt(n)
    \/ \E col_id \in ColIdArgs, w \in Widths : lv_table_set_col_width(col_id, w)
    \/ \E rc \in CellArgs, txt \in Texts :
         lv_table_set_cell_value(rc[1], rc[2], txt)
    \/ \E rc \in CellArgs, align \in Aligns :
         lv_table_set_cell_align(rc[1], rc[2], align)
    \/ \E rc \in CellArgs, en \in BOOLEAN :
         lv_table_set_cell_merge_right(rc[1], rc[2], en)
    \/ \E type \in StyleTypes, style \in Styles : lv_table_set_style(type, style)

SizeSpec == Init /\ [][SizeNext]_vars

\* a table as a run of the setters leaves it: any grid within the bounds whose
\* slots are empty or hold a buffer with a text and a format the setters write
\* (left or right aligned, merged or not), with the default column widths and
\* cell style, a background style of its own and the size the last refr_size
\* gave it
DrawnFormats ==
    { WithRightMerge(WithAlign(0, align), m) :
        align \in {LV_LABEL_ALIGN_LEFT, LV_LABEL_ALIGN_RIGHT}, m \in {0, 1} }
DrawnSlots ==
    {NULL} \cup { Buf(StoreText(f, txt, Len(txt) + 2)) : f \in DrawnFormats, txt \in Texts }
TableInit(slots) ==
    /\ row_cnt \in 0..MaxRow
    /\ col_cnt \in 0..(LV_TABLE_COL_MAX - 1)
    /\ row_cnt * col_cnt <= MaxCells
    /\ cell_data \in { cd \in [1..(row_cnt * col_cnt) -> slots] :
                         CountBufs(cd) <= MaxDrawnBufs }
    /\ col_w = [i \in 0..(LV_TABLE_COL_MAX - 1) |-> LV_DPI]
    /\ cell_style = lv_style_plain
    /\ bg_style = lv_style_pretty
    /\ LET r == refr_size(row_cnt, col_cnt, col_w, cell_data, cell_style, bg_style)
       IN  obj_w = r.val.w /\ obj_h = r.val.h
    /\ inv = TRUE
    /\ heap_cells = CountBufs(cell_data)
    /\ alive = TRUE
    /\ fault = FALSE
    /\ warn = "none"
    /\ drawn = <<>>

DrawnInit == TableInit(DrawnSlots)

\* layout and rendering: column widths change, the table is measured and drawn
LayoutNext ==
    \/ \E col_id \in ColIdArgs, w \in Widths : lv_table_set_col_width(col_id, w)
    \/ lv_table_design_main

LayoutSpec == DrawnInit /\ [][LayoutNext]_vars

\* the cell setters on a table that holds content
\* the per-cell setters on a table that holds content: the slots hold a text
\* left aligned and unmerged or right aligned and merged
CellFormats ==
    { WithRightMerge(WithAlign(0, LV_LABEL_ALIGN_LEFT), 0),
      WithRightMerge(WithAlign(0, LV_LABEL_ALIGN_RIGHT), 1) }
CellSlots ==
    {NULL} \cup { Buf(StoreText(f, txt, Len(txt) + 2)) : f \in CellFormats, txt \in Texts }
CellInit == TableInit(CellSlots)
GridCells == (0..(row_cnt - 1)) \X (0..(col_cnt - 1))
CellNext ==
    \/ \E rc \in GridCells, txt \in Texts :
         lv_table_set_cell_value(rc[1], rc[2], txt)
    \/ \E rc \in GridCells, align \in Aligns :
         lv_table_set_cell_align(rc[1], rc[2], align)
    \/ \E rc \in GridCells, en \in BOOLEAN :
         lv_table_set_cell_merge_right(rc[1], rc[2], en)

CellSpec == CellInit /\ [][CellNext]_vars

(***************************************************************************)
(* The claims.                                                             *)
(***************************************************************************)
\* every (row, col) a caller can name within the bounds, valid or not
AnyRow == 0..(MaxRow + 1)
AnyCol == 0..(LV_TABLE_COL_MAX + 1)
ValidCell(row, col) == row < row_cnt /\ col < col_cnt
\* the slot of a valid cell is a buffer the table allocated
SlotExists(row, col) ==
    /\ ValidCell(row, col)
    /\ LET s == Slot(cell_data, CellIndex(row, col))
       IN  ~s.fault /\ IsBuf(s.val)
\* the three getters answer with the defaults of an empty cell
ReadsEmpty(row, col) ==
    /\ lv_table_get_cell_value(row, col) = Ok(<<>>)
    /\ lv_table_get_cell_align(row, col) = Ok(LV_LABEL_ALIGN_LEFT)
    /\ lv_table_get_cell_merge_right(row, col) = Ok(FALSE)
GridReadsEmpty ==
    \A row \in 0..(row_cnt - 1), col \in 0..(col_cnt - 1) : ReadsEmpty(row, col)

\* C1: for every table state, every valid cell and every text T,
\* set_cell_value(row, col, T) followed by get_cell_value(row, col) returns T.
C1_SetThenGet ==
    [][\A row \in AnyRow, col \in AnyCol, txt \in Texts :
         (ValidCell(row, col) /\ lv_table_set_cell_value(row, col, txt))
            => lv_table_get_cell_value(row, col)' = Ok(txt)]_vars

\* C2: for row >= R or col >= C the getters return "", left and false, and the
\* three cell setters change nothing of the table state and do not fault.
C2_OutOfRange ==
    /\ [](Running =>
            \A row \in AnyRow, col \in AnyCol :
               ~ValidCell(row, col) => ReadsEmpty(row, col))
    /\ [][\A row \in AnyRow, col \in AnyCol :
            (/\ ~ValidCell(row, col)
             /\ \/ \E txt \in Texts : lv_table_set_cell_value(row, col, txt)
                \/ \E align \in Aligns : lv_table_set_cell_align(row, col, align)
                \/ \E en \in BOOLEAN : lv_table_set_cell_merge_right(row, col, en))
            => (UNCHANGED <<table, heap_cells>> /\ ~fault')]_vars
\* a cell setter was turned away on a table that holds a cell buffer
C2_Witness ==
    /\ Running
    /\ warn = "invalid row or column"
    /\ row_cnt > 0 /\ col_cnt > 0
    /\ CountBufs(cell_data) > 0

\* C3: a table created as a copy reports the source's row and column count and
\* every cell of it reads as empty, without faulting.
C3_CopyIsEmptyGrid ==
    [][lv_table_create_copy =>
         (/\ lv_table_get_row_cnt' = lv_table_get_row_cnt
          /\ lv_table_get_col_cnt' = lv_table_get_col_cnt
          /\ GridReadsEmpty')]_vars

\* C4: in every state the store has exactly R*C slots when R*C > 0 and is NULL
\* when R*C = 0.
C4_StoreSize ==
    alive => IF row_cnt * col_cnt > 0
             THEN Len(cell_data) = row_cnt * col_cnt
             ELSE cell_data = <<>>

\* C5: when R*C is 0 and a set_row_cnt or set_col_cnt makes it positive, every
\* cell of the new grid reads as empty.
C5_RegrowIsEmpty ==
    [][(/\ row_cnt * col_cnt = 0
        /\ \/ \E n \in RowCntArgs : lv_table_set_row_cnt(n)
           \/ \E n \in ColCntArgs : lv_table_set_col_cnt(n)
        /\ row_cnt' * col_cnt' > 0)
       => GridReadsEmpty']_vars

\* C6: set_cell_value on a valid cell keeps the alignment and the merge flag of a
\* slot that exists, and leaves a slot that did not exist left-aligned and
\* unmerged.
C6_SetValueKeepsFormat ==
    [][\A row \in AnyRow, col \in AnyCol, txt \in Texts :
         (ValidCell(row, col) /\ lv_table_set_cell_value(row, col, txt))
            => IF SlotExists(row, col)
               THEN /\ lv_table_get_cell_align(row, col)' = lv_table_get_cell_align(row, col)
                    /\ lv_table_get_cell_merge_right(row, col)'
                          = lv_table_get_cell_merge_right(row, col)
               ELSE /\ lv_table_get_cell_align(row, col)' = Ok(LV_LABEL_ALIGN_LEFT)
                    /\ lv_table_get_cell_merge_right(row, col)' = Ok(FALSE)]_vars

\* C7: when set_cell_align or set_cell_merge_right is the first write to a valid
\* cell, the field that was not set reads as its default (merge false, alignment
\* left) and the text reads as empty.
C7_FirstFormatWrite ==
    [][\A row \in AnyRow, col \in AnyCol :
         (ValidCell(row, col) /\ ~SlotExists(row, col)) =>
            /\ (\E align \in Aligns : lv_table_set_cell_align(row, col, align))
                 => /\ lv_table_get_cell_merge_right(row, col)' = Ok(FALSE)
                    /\ lv_table_get_cell_value(row, col)' = Ok(<<>>)
            /\ (\E en \in BOOLEAN : lv_table_set_cell_merge_right(row, col, en))
                 => /\ lv_table_get_cell_align(row, col)' = Ok(LV_LABEL_ALIGN_LEFT)
                    /\ lv_table_get_cell_value(row, col)' = Ok(<<>>)]_vars

\* C8: on a valid cell whose slot exists, set_cell_align changes the alignment to
\* its argument and leaves the text and the merge flag as they were;
\* set_cell_merge_right changes the merge flag to its argument and leaves the
\* text and the alignment as they were.
C8_FormatSettersFrame ==
    [][\A row \in AnyRow, col \in AnyCol :
         SlotExists(row, col) =>
            /\ \A align \in Aligns :
                 lv_table_set_cell_align(row, col, align)
                   => /\ lv_table_get_cell_align(row, col)' = Ok(align)
                      /\ lv_table_get_cell_value(row, col)' = lv_table_get_cell_value(row, col)
                      /\ lv_table_get_cell_merge_right(row, col)'
                            = lv_table_get_cell_merge_right(row, col)
            /\ \A en \in BOOLEAN :
                 lv_table_set_cell_merge_right(row, col, en)
                   => /\ lv_table_get_cell_merge_right(row, col)' = Ok(en)
                      /\ lv_table_get_cell_value(row, col)' = lv_table_get_cell_value(row, col)
                      /\ lv_table_get_cell_align(row, col)'
                            = lv_table_get_cell_align(row, col)]_vars
\* set_cell_align was the last call (the only successful call that requests no
\* redraw) and its cell holds a text, is merged right and right-aligned
C8_Witness ==
    /\ Running /\ warn = "none" /\ ~inv
    /\ \E row \in AnyRow, col \in AnyCol :
         /\ lv_table_get_cell_value(row, col) = Ok(<<65, 66, 67>>)
         /\ lv_table_get_cell_merge_right(row, col) = Ok(TRUE)
         /\ lv_table_get_cell_align(row, col) = Ok(LV_LABEL_ALIGN_RIGHT)

\* C9: once the cleanup signal has run, no cell buffer the table allocated is
\* still allocated.
C9_CleanupFreesAll == (~alive) => heap_cells = 0

\* C10: set_col_cnt(n) with n >= LV_TABLE_COL_MAX changes neither the counts, the
\* store nor the widget size; with n < LV_TABLE_COL_MAX the column count becomes
\* n; the column count is always below LV_TABLE_COL_MAX.
C10_ColCntCap ==
    /\ [](lv_table_get_col_cnt \in 0..(LV_TABLE_COL_MAX - 1))
    /\ [][\A n \in ColCntArgs :
            lv_table_set_col_cnt(n)
              => IF n >= LV_TABLE_COL_MAX
                 THEN UNCHANGED <<col_cnt, row_cnt, cell_data, obj_w, obj_h>>
                 ELSE lv_table_get_col_cnt' = n]_vars
\* a set_col_cnt was turned away on a table of the largest width that holds a
\* cell buffer
C10_Witness ==
    /\ Running
    /\ warn = "too many columns"
    /\ col_cnt = LV_TABLE_COL_MAX - 1
    /\ CountBufs(cell_data) > 0

\* C11: set_col_width(col_id, w) with col_id >= LV_TABLE_COL_MAX changes nothing
\* of the table state; with col_id < LV_TABLE_COL_MAX (also when col_id >= C) a
\* following get_col_width(col_id) returns w and the widths of all other columns
\* are unchanged; get_col_width with col_id >= LV_TABLE_COL_MAX returns 0.
C11_ColWidth ==
    /\ [](\A col_id \in AnyCol :
            col_id >= LV_TABLE_COL_MAX => lv_table_get_col_width(col_id) = Ok(0))
    /\ [][\A col_id \in AnyCol, w \in Widths :
            lv_table_set_col_width(col_id, w)
              => IF col_id >= LV_TABLE_COL_MAX
                 THEN UNCHANGED <<table, heap_cells, fault>>
                 ELSE /\ lv_table_get_col_width(col_id)' = Ok(w)
                      /\ \A other \in AnyCol \ {col_id} :
                           lv_table_get_col_width(other)' = lv_table_get_col_width(other)]_vars
\* a set_col_width was turned away after the width of a column beyond the last
\* column of a table with content was changed
C11_Witness ==
    /\ Running
    /\ warn = "too big col_id"
    /\ col_cnt > 0 /\ col_cnt < LV_TABLE_COL_MAX - 1
    /\ CountBufs(cell_data) > 0
    /\ lv_table_get_col_width(LV_TABLE_COL_MAX - 1) = Ok(1)
    /\ lv_table_get_col_width(0) = Ok(LV_DPI)

\* the size the owning object holds is the size refr_size computes from the
\* current counts, widths, slots and styles
SizeIsTableSize ==
    LET r == refr_size(row_cnt, col_cnt, col_w, cell_data, cell_style, bg_style)
    IN  /\ ~r.fault
        /\ obj_w = r.val.w
        /\ obj_h = r.val.h

\* an accepted call of one of the setters that change a dimension, a width, a
\* style or the content of a cell, that ran to its end
SizeMutation ==
    /\ warn' = "none"
    /\ ~fault'
    /\ \/ \E n \in RowCntArgs : lv_table_set_row_cnt(n)
       \/ \E n \in ColCntArgs : lv_table_set_col_cnt(n)
       \/ \E col_id \in ColIdArgs, w \in Widths : lv_table_set_col_width(col_id, w)
       \/ \E rc \in CellArgs, txt \in Texts : lv_table_set_cell_value(rc[1], rc[2], txt)
       \/ \E rc \in CellArgs, en \in BOOLEAN :
            lv_table_set_cell_merge_right(rc[1], rc[2], en)
       \/ \E type \in StyleTypes, style \in Styles : lv_table_set_style(type, style)

\* C12: after every mutation of dimension, width, style or content (set_row_cnt,
\* set_col_cnt, set_col_width, set_cell_value, set_cell_merge_right, set_style
\* for either slot) the size held by the owning object equals the table size of
\* the current state: the first C column widths plus twice the background
\* horizontal padding, and the row heights under the current cell style plus
\* twice the background vertical padding.
C12_SizeAfterMutation == [][SizeMutation => SizeIsTableSize']_vars

\* an accepted call of any setter, set_cell_align included, that ran to its end
SuccessfulMutation ==
    \/ SizeMutation
    \/ /\ warn' = "none"
       /\ ~fault'
       /\ \E rc \in CellArgs, align \in Aligns :
            lv_table_set_cell_align(rc[1], rc[2], align)

\* C13: every successful mutating operation requests a redraw of the table
\* before it returns: set_row_cnt, set_col_cnt, set_col_width, set_cell_value,
\* set_cell_merge_right, set_style for both slots, and set_cell_align on a valid
\* cell.
C13_MutationInvalidates == [][SuccessfulMutation => inv']_vars

\* the length of the maximal chain of cells (row, col), (row, col + 1), ... that
\* have right-merge set, cut at the last column
ChainLen(row, col) ==
    CHOOSE k \in 0..(col_cnt - 1 - col) :
        /\ \A j \in 0..(k - 1) : lv_table_get_cell_merge_right(row, col + j) = Ok(TRUE)
        /\ \/ k = col_cnt - 1 - col
           \/ lv_table_get_cell_merge_right(row, col + k) # Ok(TRUE)

\* the columns of a row that no chain starting further left absorbs
HeadCols(row) ==
    LET head[col \in 0..(col_cnt - 1)] ==
            \A h \in 0..(col - 1) : ~(head[h] /\ h + ChainLen(row, h) >= col)
    IN  {col \in 0..(col_cnt - 1) : head[col]}

\* the sum of the widths of columns first..last
RECURSIVE SpanWidth(_, _)
SpanWidth(first, last) ==
    IF last < first THEN 0 ELSE col_w[last] + SpanWidth(first, last - 1)

\* the measurement the claim expects for the head cell in column col of a row
ExpectedMeasure(row, col) ==
    [col |-> col, col_merge |-> ChainLen(row, col),
     txt |-> lv_table_get_cell_value(row, col).val,
     max_w |-> SpanWidth(col, col + ChainLen(row, col)) - 2 * cell_style.pad_hor]

\* C14: in row-height measurement the text width given to lv_txt_get_size for a
\* non-empty cell (r, c) is the sum of the widths of columns c..c+k minus twice
\* the cell style's horizontal padding, k being the length of the maximal chain
\* of right-merged cells from (r, c), cut at the last column; the absorbed
\* columns c+1..c+k are not measured on their own.
C14_MeasuredWidth ==
    \A row \in 0..(row_cnt - 1) :
        LET m == MeasureCalls(cell_data, col_cnt, col_w, cell_style, row)
        IN  /\ ~m.fault
            /\ {m.val[i] : i \in 1..Len(m.val)}
                 = {ExpectedMeasure(row, col) :
                      col \in {c \in HeadCols(row) : SlotExists(row, c)}}
            /\ \A i, j \in 1..Len(m.val) : i < j => m.val[i].col < m.val[j].col
\* three columns, the first narrowed, (0,0) and (0,1) merged and non-empty: the
\* only measurement of row 0 is the one of (0,0) over columns 0-2
C14_Witness ==
    /\ Running
    /\ col_cnt = 3 /\ row_cnt >= 1
    /\ lv_table_get_cell_merge_right(0, 0) = Ok(TRUE)
    /\ lv_table_get_cell_merge_right(0, 1) = Ok(TRUE)
    /\ lv_table_get_cell_value(0, 1) = Ok(<<65, 66, 67>>)
    /\ col_w[0] = 1 /\ col_w[1] = LV_DPI /\ col_w[2] = LV_DPI
    /\ MeasureCalls(cell_data, col_cnt, col_w, cell_style, 0)
         = Ok(<<[col |-> 0, col_merge |-> 2,
                 txt |-> lv_table_get_cell_value(0, 0).val,
                 max_w |-> 1 + LV_DPI + LV_DPI - 2 * cell_style.pad_hor]>>)

\* the draw calls of one kind among the calls of the last main draw
Drawn(kind) == {i \in 1..Len(drawn) : drawn[i].kind = kind}

\* the left edge of column col: the object's left edge, the background's
\* horizontal padding and the columns before col
ColLeft(col) == coords_x1 + bg_style.pad_hor + SpanWidth(0, col - 1)

\* what the claim expects of the calls of a main draw
DrawnAsClaimed ==
    \* one rectangle per chain head, as wide as the columns of the chain
    /\ \A row \in 0..(row_cnt - 1) : \A col \in HeadCols(row) :
         \E i \in Drawn("rect") :
            /\ drawn[i].row = row /\ drawn[i].col = col
            /\ drawn[i].x1 = ColLeft(col)
            /\ drawn[i].x2 - drawn[i].x1 = SpanWidth(col, col + ChainLen(row, col))
            /\ \A j \in Drawn("rect") \ {i} : ~(drawn[j].row = row /\ drawn[j].col = col)
    \* the text of a non-empty head inside its rectangle, once
    /\ \A row \in 0..(row_cnt - 1) : \A col \in HeadCols(row) :
         IF SlotExists(row, col)
         THEN \E i \in Drawn("label") :
                /\ drawn[i].row = row /\ drawn[i].col = col
                /\ drawn[i].txt = lv_table_get_cell_value(row, col).val
                /\ drawn[i - 1].kind = "rect"
                /\ drawn[i - 1].row = row /\ drawn[i - 1].col = col
                /\ drawn[i].x1 = drawn[i - 1].x1 + cell_style.pad_hor
                /\ drawn[i].x2 = drawn[i - 1].x2 - cell_style.pad_hor
                /\ drawn[i].y1 = drawn[i - 1].y1 + cell_style.pad_ver
                /\ drawn[i].y2 = drawn[i - 1].y2 - cell_style.pad_ver
                /\ \A j \in Drawn("label") \ {i} :
                     ~(drawn[j].row = row /\ drawn[j].col = col)
         ELSE \A i \in Drawn("label") : ~(drawn[i].row = row /\ drawn[i].col = col)
    \* nothing for an absorbed column
    /\ \A i \in 1..Len(drawn) :
         /\ drawn[i].row \in 0..(row_cnt - 1)
         /\ drawn[i].col \in HeadCols(drawn[i].row)
    \* the rectangles of a row tile the columns 0..C-1: every column lies in
    \* exactly one of them, and each starts at the edge where the one before ends
    /\ \A row \in 0..(row_cnt - 1), col \in 0..(col_cnt - 1) :
         \E i \in Drawn("rect") :
            /\ drawn[i].row = row
            /\ drawn[i].x1 <= ColLeft(col) /\ ColLeft(col + 1) <= drawn[i].x2
            /\ \A j \in Drawn("rect") \ {i} :
                 ~(/\ drawn[j].row = row
                   /\ drawn[j].x1 <= ColLeft(col) /\ ColLeft(col + 1) <= drawn[j].x2)
    /\ \A i \in Drawn("rect") :
         \/ drawn[i].x2 = ColLeft(col_cnt)
         \/ \E j \in Drawn("rect") :
              drawn[j].row = drawn[i].row /\ drawn[j].x1 = drawn[i].x2

\* C15: in a main draw the renderer draws, for every row, exactly one background
\* rectangle per merge-chain head cell, as wide as all columns of the chain, and
\* the head cell's text inside it if the slot is non-empty; for an absorbed
\* column it draws no rectangle and no text, even if its slot holds text; the
\* rectangles of a row tile the columns 0..C-1 without gap or overlap.
C15_DrawnCells == [][lv_table_design_main => DrawnAsClaimed']_vars
\* a main draw of a table whose cell (0,0) absorbs a column that holds text,
\* next to a column of its own: two rectangles and one label
C15_Witness ==
    /\ Running
    /\ row_cnt = 1 /\ col_cnt = 3
    /\ lv_table_get_cell_merge_right(0, 0) = Ok(TRUE)
    /\ lv_table_get_cell_value(0, 1) = Ok(<<65, 66, 67>>)
    /\ lv_table_get_cell_merge_right(0, 1) = Ok(FALSE)
    /\ col_w[0] = 1
    /\ Len(drawn) = 3
    /\ Cardinality(Drawn("rect")) = 2
    /\ \E i \in Drawn("rect") : drawn[i].col = 0 /\ drawn[i].x2 - drawn[i].x1 = 1 + LV_DPI
    /\ \E i \in Drawn("rect") : drawn[i].col = 2 /\ drawn[i].x2 - drawn[i].x1 = LV_DPI

\* the spans a sequence of calls resolves: the column of each call, the number
\* of columns it absorbs and the width its text is wrapped into
Spans(calls) ==
    {[col |-> calls[i].col, col_merge |-> calls[i].col_merge, max_w |-> calls[i].max_w] :
        i \in 1..Len(calls)}

\* the columns a scan of the row visits when it resolves these spans: the ones
\* that no span absorbs
Visited(spans) ==
    {col \in 0..(col_cnt - 1) :
        \A s \in spans : ~(s.col < col /\ col <= s.col + s.col_merge)}

\* the calls of a sequence that are of one kind and for one row
RECURSIVE CallsOf(_, _, _)
CallsOf(calls, kind, row) ==
    IF calls = <<>> THEN <<>>
    ELSE (IF Head(calls).kind = kind /\ Head(calls).row = row
          THEN <<Head(calls)>> ELSE <<>>) \o CallsOf(Tail(calls), kind, row)

MaxOf(S) == CHOOSE x \in S : \A y \in S : y <= x

\* the measured text heights of the non-empty merge-head cells of a row
MeasuredHeights(row) ==
    {lv_txt_get_size(ExpectedMeasure(row, col).txt, cell_style.font_h,
                     ExpectedMeasure(row, col).max_w) :
        col \in {c \in HeadCols(row) : SlotExists(row, c)}}

\* C17: row_height(r) equals the maximum of the cell style's font line height
\* and the largest measured text height among the non-empty merge-head cells of
\* row r, plus twice the cell style's vertical padding; so it is at least the
\* font line height plus twice the padding, with equality for a row whose slots
\* are all empty.
C17_RowHeight ==
    \A row \in 0..(row_cnt - 1) :
        LET h == get_row_height(cell_data, col_cnt, col_w, cell_style, row)
            floor == cell_style.font_h + 2 * cell_style.pad_ver
        IN  /\ h = Ok(MaxOf({cell_style.font_h} \cup MeasuredHeights(row))
                       + 2 * cell_style.pad_ver)
            /\ h.val >= floor
            /\ (\A col \in 0..(col_cnt - 1) : ~SlotExists(row, col)) => h.val = floor
\* a row whose text wraps into three lines above a row with empty slots only
C17_Witness ==
    /\ Running
    /\ row_cnt = 2 /\ col_cnt >= 1
    /\ col_w[0] = 1
    /\ lv_table_get_cell_value(0, 0) = Ok(<<65, 66, 67>>)
    /\ \A col \in 0..(col_cnt - 1) : ~SlotExists(1, col)
    /\ get_row_height(cell_data, col_cnt, col_w, cell_style, 0)
         = Ok(3 * cell_style.font_h + 2 * cell_style.pad_ver)
    /\ get_row_height(cell_data, col_cnt, col_w, cell_style, 1)
         = Ok(cell_style.font_h + 2 * cell_style.pad_ver)

\* what the three getters answer for the cell at linear offset i of the
\* row-major array
ReadsAt(i) ==
    <<lv_table_get_cell_value(i \div col_cnt, i % col_cnt),
      lv_table_get_cell_align(i \div col_cnt, i % col_cnt),
      lv_table_get_cell_merge_right(i \div col_cnt, i % col_cnt)>>

\* an accepted set_row_cnt or set_col_cnt
ResizeCall ==
    /\ warn' = "none"
    /\ \/ \E n \in RowCntArgs : lv_table_set_row_cnt(n)
       \/ \E n \in ColCntArgs : lv_table_set_col_cnt(n)

\* C18: a set_row_cnt or set_col_cnt that changes R*C from n > 0 to m > 0
\* truncates or extends the flat row-major array: every slot at an offset
\* i < min(n, m) keeps its text and format (read at row i div C', column
\* i mod C'), and when m > n every slot at an offset in [n, m) is empty
\* (get_cell_value returns the empty string, alignment left, right-merge false).
C18_ResizeKeepsPrefix ==
    [][(ResizeCall /\ row_cnt * col_cnt > 0 /\ row_cnt' * col_cnt' > 0)
         => /\ \A i \in 0..(Min(row_cnt * col_cnt, row_cnt' * col_cnt') - 1) :
                 ReadsAt(i)' = ReadsAt(i)
            /\ \A i \in (row_cnt * col_cnt)..(row_cnt' * col_cnt' - 1) :
                 ReadsAt(i)' = <<Ok(<<>>), Ok(LV_LABEL_ALIGN_LEFT), Ok(FALSE)>>]_vars

\* C19: after any sequence of public operations every access to the cell store
\* by an accessor, by refr_size and get_row_height, by the renderer or by
\* cleanup uses a linear index in [0, R*C) of an allocated store, every slot it
\* dereferences is empty or a buffer the table allocated and still owns, and
\* every column-width index is within the columns.
C19_NoInvalidAccess == [](~fault)

\* a call of one of the three cell setters on (row, col) that ran to its end
CellSetterCall(row, col) ==
    /\ warn' = "none"
    /\ ~fault'
    /\ \/ \E txt \in Texts : lv_table_set_cell_value(row, col, txt)
       \/ \E align \in Aligns : lv_table_set_cell_align(row, col, align)
       \/ \E en \in BOOLEAN : lv_table_set_cell_merge_right(row, col, en)

\* what the three getters answer for cell (row, col)
ReadsOf(row, col) ==
    <<lv_table_get_cell_value(row, col),
      lv_table_get_cell_align(row, col),
      lv_table_get_cell_merge_right(row, col)>>

\* cell (row, col) reads the same after the step as before it; a slot that
\* holds the same bytes under the same counts reads the same
KeepsCell(row, col) ==
    \/ /\ UNCHANGED <<row_cnt, col_cnt>>
       /\ cell_data'[CellIndex(row, col) + 1] = cell_data[CellIndex(row, col) + 1]
    \/ ReadsOf(row, col)' = ReadsOf(row, col)

\* C20: a successful set_cell_value, set_cell_align or set_cell_merge_right on a
\* valid cell (row, col) leaves every other cell's text, alignment and
\* right-merge flag unchanged, and leaves R, C and all column widths unchanged.
C20_CellSetterFrame ==
    [][\A rc \in GridCells :
         \/ /\ UNCHANGED <<row_cnt, col_cnt, col_w>>
            /\ \A other \in GridCells \ {rc} : KeepsCell(other[1], other[2])
         \/ ~CellSetterCall(rc[1], rc[2])]_vars
\* cell (0,0) was centred by set_cell_align next to a right-aligned, merged cell
\* (0,1) that holds a text
C20_Witness ==
    /\ Running
    /\ warn = "none"
    /\ col_cnt >= 2 /\ row_cnt >= 1
    /\ lv_table_get_cell_align(0, 0) = Ok(LV_LABEL_ALIGN_CENTER)
    /\ ReadsOf(0, 1) = <<Ok(<<65, 66, 67>>), Ok(LV_LABEL_ALIGN_RIGHT), Ok(TRUE)>>
====
